---- MODULE Spec2Model ----
(***************************************************************************)
(* Model of bedrock.contentful: the Entry Sync management command          *)
(* (update_contentful.py) over the ContentfulEntry table (models.py), and  *)
(* the page assembler, entry mappers and rich text renderers of api.py.    *)
(*                                                                         *)
(* Strings are TLA+ strings; \o, Len and SubSeq act on them as on Python's. *)
(***************************************************************************)
EXTENDS Integers, Sequences, FiniteSets, TLC

(* ------------------------------ bounds -------------------------------- *)
\* number of entry ids the CMS space can hold
MaxIds == 2

Ids == 1..MaxIds
\* the two concurrent refresh() runs
Procs == {1, 2}

(* --------------------------- content-type tags ------------------------ *)
connectHomepage == "connectHomepage"
pageVersatile == "pageVersatile"
pageGeneral == "pageGeneral"
pageHome == "pageHome"

\* settings.CONTENTFUL_CONTENT_TYPES, the tracked content types, in order
CONTENTFUL_CONTENT_TYPES == <<connectHomepage, pageVersatile>>

(* ------------------------- upstream (the CMS) ------------------------- *)
Langs == {"en-US", "de"}
Bodies == {"b0", "b1"}

\* The JSON a raw fetch of one entry returns, reduced to the parts refresh()
\* reads (items[0].sys.locale, items[0].fields.name) plus the rest of the
\* document (body).
Pages == [locale : Langs, name : Langs, body : Bodies]

\* What the CMS holds for one id it ever issued: the entry's content type
\* (fixed for the life of the id), its document, and whether it is published.
\* A connector is stored under the default locale, names its language in
\* fields.name and has no other content; a page carries its language in
\* sys.locale.
BlankPage == [locale |-> "en-US", name |-> "en-US", body |-> "b0"]

UpstreamEntries ==
    {e \in [ctype : {connectHomepage, pageVersatile}, page : Pages, live : BOOLEAN] :
        /\ IF e.ctype = connectHomepage
           THEN e.page.locale = "en-US" /\ e.page.body = "b0"
           ELSE e.page.name = "en-US"
        /\ ~e.live => e.page = BlankPage}

VARIABLES
    upstream,   \* the CMS space: a function from the ids issued so far to entries
    store,      \* the ContentfulEntry table: a set of rows
    last,       \* the latest refresh() run since the last upstream change, if any
    pc,         \* concurrent runs: each process's position in refresh()
    run,        \* concurrent runs: each process's local variables
    race,       \* concurrent runs: the inserts made for a pair both runs were
                \* about to insert at once
    page_info,  \* request.page_info of the current request
    node,       \* rich text: the node handed to the renderer
    html,       \* rich text: what the renderer returned (or raised)
    self_page,  \* page request: self.page, the root entry fetched for the page id
    ctx,        \* page request: what get_content() returned (or raised)
    resolver,   \* style tables: the resolver called and the key handed to it
    css_class,  \* style tables: what the resolver returned
    the_item,   \* content handlers: the entry handed to its registered handler
    the_data    \* content handlers: what the handler returned (or raised)

syncVars == <<upstream, store, last, pc, run, race>>
richVars == <<page_info, node, html>>
pageVars == <<self_page, ctx>>
styleVars == <<resolver, css_class>>
handlerVars == <<the_item, the_data>>
apiVars == <<richVars, pageVars, styleVars, handlerVars>>
vars == <<syncVars, apiVars>>

(* ------------------------------ data_hash ------------------------------ *)
\* json.dumps(data, sort_keys=True): the members in key order
JsonDumps(data) ==
    << <<"body", data.body>>, <<"locale", data.locale>>, <<"name", data.name>> >>

\* sha256(...).hexdigest(), taken as collision-free: the digest stands for
\* the serialisation it was computed from
Sha256(str_data) == <<"sha256", str_data>>

data_hash(data) == Sha256(JsonDumps(data))

(* ------------------------ the ContentfulEntry table -------------------- *)
Row(contentful_id, content_type, language, hash, data) ==
    [contentful_id |-> contentful_id, content_type |-> content_type,
     language |-> language, data_hash |-> hash, data |-> data]

\* ContentfulEntry.objects.get(contentful_id=...): the matching rows
\* (none: DoesNotExist)
ObjectsGet(rows, contentful_id) == {r \in rows : r.contentful_id = contentful_id}

\* The table's constraints: contentful_id unique, (content_type, language)
\* unique together.  TRUE when `row` may not stand next to `others`.
MutNoUniqueTogether(others, row) ==
    \E r \in others : r.contentful_id = row.contentful_id

UniqueViolation(others, row) ==
    \E r \in others :
        \/ r.contentful_id = row.contentful_id
        \/ r.content_type = row.content_type /\ r.language = row.language

\* ContentfulEntry.objects.create(...): INSERT, or IntegrityError
MutCreateUnchecked(rows, row) == [ok |-> TRUE, rows |-> rows \cup {row}]

ObjectsCreate(rows, row) ==
    IF UniqueViolation(rows, row)
    THEN [ok |-> FALSE, rows |-> rows]
    ELSE [ok |-> TRUE, rows |-> rows \cup {row}]

\* an UPDATE without its WHERE clause: the saved row is all the table keeps
MutSaveReplacesTable(rows, obj) == [ok |-> TRUE, rows |-> {obj}]

\* obj.save() of a row fetched earlier: UPDATE of the row with obj's key by
\* obj's fields, or IntegrityError.  contentful_id stands for the primary
\* key: it is unique and no code path changes it.
ObjectsSave(rows, obj) ==
    LET others == rows \ ObjectsGet(rows, obj.contentful_id)
    IN IF UniqueViolation(others, obj)
       THEN [ok |-> FALSE, rows |-> rows]
       ELSE [ok |-> TRUE, rows |-> others \cup {obj}]

(* ------------------------------ refresh() ------------------------------ *)
\* client.entries({'content_type': ctype, 'include': 0}).items, as
\* (ctype, id) pairs in id order
RECURSIVE EntriesOfType(_, _, _)
EntriesOfType(up, ctype, i) ==
    IF i > MaxIds THEN <<>>
    ELSE (IF i \in DOMAIN up /\ up[i].live /\ up[i].ctype = ctype
          THEN << <<ctype, i>> >> ELSE <<>>)
         \o EntriesOfType(up, ctype, i + 1)

RECURSIVE ListContentIds(_, _)
ListContentIds(up, k) ==
    IF k > Len(CONTENTFUL_CONTENT_TYPES) THEN <<>>
    ELSE EntriesOfType(up, CONTENTFUL_CONTENT_TYPES[k], 1) \o ListContentIds(up, k + 1)

\* the content_ids list built by the first loop of refresh()
ContentIds(up) == ListContentIds(up, 1)

\* language of a fetched page
PageLanguage(ctype, page) ==
    IF ctype = connectHomepage THEN page.name ELSE page.locale

\* the test that decides an overwrite
MutAlwaysStale(force, hash, obj) == TRUE

MutIgnoreForce(force, hash, obj) == hash # obj.data_hash

MutForceOnly(force, hash, obj) == force

NeedsUpdate(force, hash, obj) == force \/ hash # obj.data_hash

\* the counter an overwrite increments
MutCountInserts(acc) == [acc EXCEPT !.added = @ + 1]

CountUpdated(acc) == [acc EXCEPT !.updated = @ + 1]

\* One pass of the second loop of refresh(), for content id (ctype, page_id),
\* on the accumulator acc = [store, added, updated, status]; `fetched` is
\* FALSE when raise_for_status() raises.
RefreshEntry(acc, ctype, page_id, up, force, fetched) ==
    IF ~fetched THEN [acc EXCEPT !.status = "HTTPError"]
    ELSE IF page_id \notin DOMAIN up \/ ~up[page_id].live
         THEN [acc EXCEPT !.status = "IndexError"]
    ELSE
      LET page == up[page_id].page
          hash == data_hash(page)
          language == PageLanguage(ctype, page)
          found == ObjectsGet(acc.store, page_id)
      IN IF found = {}
         THEN LET c == ObjectsCreate(acc.store, Row(page_id, ctype, language, hash, page))
              IN IF c.ok
                 THEN [acc EXCEPT !.store = c.rows, !.added = @ + 1]
                 ELSE [acc EXCEPT !.status = "IntegrityError"]
         ELSE LET obj == CHOOSE o \in found : TRUE
              IN IF NeedsUpdate(force, hash, obj)
                 THEN LET s == ObjectsSave(acc.store,
                                   [obj EXCEPT !.language = language,
                                               !.data_hash = hash, !.data = page])
                      IN IF s.ok
                         THEN CountUpdated([acc EXCEPT !.store = s.rows])
                         ELSE [acc EXCEPT !.status = "IntegrityError"]
                 ELSE acc

\* The second loop of refresh() from position i; failAt is the position whose
\* fetch fails (0: none does).
RECURSIVE RefreshLoop(_, _, _, _, _, _)
RefreshLoop(acc, content_ids, i, up, force, failAt) ==
    IF i > Len(content_ids) THEN acc
    ELSE LET nxt == RefreshEntry(acc, content_ids[i][1], content_ids[i][2], up, force,
                                 i # failAt)
         IN IF nxt.status # "ok" THEN nxt
            ELSE RefreshLoop([nxt EXCEPT !.done = i], content_ids, i + 1, up, force, failAt)

\* Command.refresh() as one run over a table and a CMS space
Refresh(rows, up, force, failAt) ==
    RefreshLoop([store |-> rows, added |-> 0, updated |-> 0, status |-> "ok", done |-> 0],
                ContentIds(up), 1, up, force, failAt)

\* no request is being served
NoInfo == [utm_campaign |-> ""]
NoHtml == [status |-> "pending", out |-> ""]
RichIdle == page_info = NoInfo /\ node = [nodeType |-> "text", value |-> ""] /\ html = NoHtml
NoPage == [sys |-> [id |-> ""]]
NoCtx == [status |-> "pending"]
PageIdle == self_page = NoPage /\ ctx = NoCtx
NoResolver == [name |-> "", key |-> ""]
StyleIdle == resolver = NoResolver /\ css_class = NoHtml
HandlerIdle == the_item = NoPage /\ the_data = NoCtx
ApiIdle == RichIdle /\ PageIdle /\ StyleIdle /\ HandlerIdle

\* no run since the CMS last changed
NoRun == [prev |-> "none", force |-> FALSE, status |-> "none",
          added |-> 0, updated |-> 0, done |-> 0]

(* --------------------------- actions: the CMS --------------------------- *)
\* an author publishes a new entry
Publish ==
    /\ \E id \in Ids \ DOMAIN upstream : \E e \in UpstreamEntries :
          /\ e.live
          /\ upstream' = [i \in DOMAIN upstream \cup {id} |->
                             IF i = id THEN e ELSE upstream[i]]
    /\ last' = NoRun
    /\ UNCHANGED <<store, pc, run, race, apiVars>>

\* an author edits a published entry, or publishes an unpublished one again
EditEntry ==
    /\ \E id \in DOMAIN upstream : \E e \in UpstreamEntries :
          /\ e.live
          /\ e.ctype = upstream[id].ctype
          /\ e # upstream[id]
          /\ upstream' = [upstream EXCEPT ![id] = e]
    /\ last' = NoRun
    /\ UNCHANGED <<store, pc, run, race, apiVars>>

\* an author unpublishes an entry
Unpublish ==
    /\ \E id \in DOMAIN upstream :
          /\ upstream[id].live
          /\ upstream' = [upstream EXCEPT ![id].live = FALSE, ![id].page = BlankPage]
    /\ last' = NoRun
    /\ UNCHANGED <<store, pc, run, race, apiVars>>

(* ---------------------- actions: one run at a time ---------------------- *)
\* manage.py update_contentful [--force], run to its end (return or raise).
\* last.prev: how the run before this one ended ("none": the CMS has changed
\* since, or there was none); last.done: the content ids this run handled
\* without raising.
RunRefresh ==
    /\ \E force \in BOOLEAN : \E failAt \in 0..Len(ContentIds(upstream)) :
          LET res == Refresh(store, upstream, force, failAt)
          IN /\ store' = res.store
             /\ last' = [prev |-> last.status, force |-> force,
                         status |-> res.status, added |-> res.added,
                         updated |-> res.updated, done |-> res.done]
    /\ UNCHANGED <<upstream, pc, run, race, apiVars>>

\* the locals of refresh() before it starts
IdleRun == [content_ids |-> <<>>, i |-> 0, force |-> FALSE, added_count |-> 0,
            updated_count |-> 0, page |-> BlankPage, obj |-> {}, status |-> "ok"]

NoRace == [pair |-> <<"", "">>, won |-> {}, lost |-> {}]

\* no sync has run: the table is empty
SyncIdle ==
    /\ upstream = <<>>
    /\ store = {}
    /\ last = NoRun
    /\ pc = [p \in Procs |-> "idle"]
    /\ run = [p \in Procs |-> IdleRun]
    /\ race = NoRace

InitSync == SyncIdle /\ ApiIdle

NextSync == Publish \/ EditEntry \/ Unpublish \/ RunRefresh

SpecSync == InitSync /\ [][NextSync]_vars

(* ------------------- actions: two runs, statement by statement --------- *)
\* The table is in autocommit mode: every get, create and save is one
\* transaction, and the runs interleave between them.

\* the row the current pass would insert
NewRow(r) ==
    LET ctype == r.content_ids[r.i][1]
    IN Row(r.content_ids[r.i][2], ctype, PageLanguage(ctype, r.page),
           data_hash(r.page), r.page)

RowPair(row) == <<row.content_type, row.language>>

\* the pass for content_ids[i] is over: go to the next one, or return
NextPass(r) ==
    [r EXCEPT !.i = @ + 1, !.page = BlankPage, !.obj = {}]

AfterPass(r) == IF r.i >= Len(r.content_ids) THEN "done" ELSE "fetch"

\* lines 35-42: start a run and list the content ids
Start(p) ==
    /\ pc[p] = "idle"
    /\ \E force \in BOOLEAN :
          LET ids == ContentIds(upstream)
          IN /\ run' = [run EXCEPT ![p] = [IdleRun EXCEPT !.content_ids = ids,
                                                           !.force = force, !.i = 1]]
             /\ pc' = [pc EXCEPT ![p] = IF ids = <<>> THEN "done" ELSE "fetch"]
    /\ UNCHANGED <<upstream, store, last, race, apiVars>>

\* lines 45-52: fetch the entry; raise_for_status() may raise
Fetch(p) ==
    /\ pc[p] = "fetch"
    /\ LET page_id == run[p].content_ids[run[p].i][2]
       IN \/ /\ pc' = [pc EXCEPT ![p] = "raised"]
             /\ run' = [run EXCEPT ![p].status = "HTTPError"]
          \/ /\ upstream[page_id].live
             /\ pc' = [pc EXCEPT ![p] = "get"]
             /\ run' = [run EXCEPT ![p].page = upstream[page_id].page]
    /\ UNCHANGED <<upstream, store, last, race, apiVars>>

\* both runs are about to insert a row for the same (content_type, language)
\* and the table holds none for it
RaceOn(pcs, runs, rows) ==
    /\ \A q \in Procs : pcs[q] = "create"
    /\ \A q1, q2 \in Procs : RowPair(NewRow(runs[q1])) = RowPair(NewRow(runs[q2]))
    /\ \A q \in Procs : \A row \in rows : RowPair(row) # RowPair(NewRow(runs[q]))

\* lines 54-56, 65-66: look the snapshot up and choose the branch
Get(p) ==
    /\ pc[p] = "get"
    /\ LET r == run[p]
           found == ObjectsGet(store, r.content_ids[r.i][2])
       IN IF found = {}
          THEN /\ pc' = [pc EXCEPT ![p] = "create"]
               /\ run' = run
          ELSE LET obj == CHOOSE o \in found : TRUE
               IN IF NeedsUpdate(r.force, data_hash(r.page), obj)
                  THEN /\ pc' = [pc EXCEPT ![p] = "save"]
                       /\ run' = [run EXCEPT ![p].obj = found]
                  ELSE /\ pc' = [pc EXCEPT ![p] = AfterPass(r)]
                       /\ run' = [run EXCEPT ![p] = NextPass(r)]
    /\ race' = IF race = NoRace /\ RaceOn(pc', run', store)
               THEN [NoRace EXCEPT !.pair = RowPair(NewRow(run[p]))]
               ELSE race
    /\ UNCHANGED <<upstream, store, last, apiVars>>

\* lines 57-64: insert; an IntegrityError is not caught
Create(p) ==
    /\ pc[p] = "create"
    /\ LET r == run[p]
           c == ObjectsCreate(store, NewRow(r))
           racing == race # NoRace /\ p \notin race.won \cup race.lost
                     /\ RowPair(NewRow(r)) = race.pair
       IN /\ store' = c.rows
          /\ IF c.ok
             THEN /\ pc' = [pc EXCEPT ![p] = AfterPass(r)]
                  /\ run' = [run EXCEPT ![p] = [NextPass(r) EXCEPT !.added_count = @ + 1]]
             ELSE /\ pc' = [pc EXCEPT ![p] = "raised"]
                  /\ run' = [run EXCEPT ![p].status = "IntegrityError"]
          /\ race' = IF ~racing THEN race
                     ELSE IF c.ok THEN [race EXCEPT !.won = @ \cup {p}]
                     ELSE [race EXCEPT !.lost = @ \cup {p}]
    /\ UNCHANGED <<upstream, last, apiVars>>

\* lines 67-71: overwrite the fetched object; an IntegrityError is not caught
Save(p) ==
    /\ pc[p] = "save"
    /\ LET r == run[p]
           obj == CHOOSE o \in r.obj : TRUE
           ctype == r.content_ids[r.i][1]
           s == ObjectsSave(store, [obj EXCEPT !.language = PageLanguage(ctype, r.page),
                                               !.data_hash = data_hash(r.page),
                                               !.data = r.page])
       IN /\ store' = s.rows
          /\ IF s.ok
             THEN /\ pc' = [pc EXCEPT ![p] = AfterPass(r)]
                  /\ run' = [run EXCEPT ![p] = [NextPass(r) EXCEPT !.updated_count = @ + 1]]
             ELSE /\ pc' = [pc EXCEPT ![p] = "raised"]
                  /\ run' = [run EXCEPT ![p].status = "IntegrityError"]
    /\ UNCHANGED <<upstream, last, race, apiVars>>

\* The ids the CMS has issued only grow and an id keeps its content type.
Succeeds(up0, up1) ==
    /\ DOMAIN up0 \subseteq DOMAIN up1
    /\ \A id \in DOMAIN up0 : up0[id].ctype = up1[id].ctype

Upstreams == UNION {[S -> UpstreamEntries] : S \in {1..n : n \in 0..MaxIds}}

\* The two runs start on a table an earlier run left (returned or raised)
\* and on a CMS space that may have changed since.
InitConc ==
    /\ upstream \in Upstreams
    /\ \E up0 \in Upstreams : \E force \in BOOLEAN :
          /\ Succeeds(up0, upstream)
          /\ store = Refresh({}, up0, force, 0).store
    /\ last = NoRun
    /\ pc = [p \in Procs |-> "idle"]
    /\ run = [p \in Procs |-> IdleRun]
    /\ race = NoRace
    /\ ApiIdle

NextConc == \E p \in Procs : Start(p) \/ Fetch(p) \/ Get(p) \/ Create(p) \/ Save(p)

SpecConc == InitConc /\ [][NextConc]_vars

(* ------------------------- Entry Sync: properties ----------------------- *)
\* the step is (or cannot be told from) a refresh() run
IsRun == last'.status # "none"

ReturnedNothingToDo == last'.status = "ok" => last'.added = 0 /\ last'.updated = 0

C2_ForceUpdatesEveryTrackedEntry ==
    (last.prev = "ok" /\ last.force /\ last.status = "ok")
        => (last.updated = Len(ContentIds(upstream)) /\ last.added = 0)

C2_Witness ==
    /\ last.prev = "ok" /\ last.force /\ last.status = "ok"
    /\ last.updated = 2

\* C3: for every content id a run handled, by the snapshot the table held
\* for it before the run: none - the new row is inserted; one, and the hash
\* differs or force is set - it is overwritten in place (language, hash and
\* data replaced, id and content type kept); one with the same hash and no
\* force - it is left as it was.  added is the number of the first kind and
\* updated the number of the second.
HandledCase(rows, page_id, page, force) ==
    LET hash == data_hash(page)
        before == ObjectsGet(rows, page_id)
    IN IF before = {} THEN "insert"
       ELSE IF force \/ \E o \in before : o.data_hash # hash THEN "overwrite"
       ELSE "none"

HandledRight(rows, rowsAfter, ctype, page_id, page, force) ==
    LET hash == data_hash(page)
        language == PageLanguage(ctype, page)
        before == ObjectsGet(rows, page_id)
        after == ObjectsGet(rowsAfter, page_id)
        case == HandledCase(rows, page_id, page, force)
    IN /\ case = "insert" => after = {Row(page_id, ctype, language, hash, page)}
       /\ case = "overwrite" =>
              after = {[o EXCEPT !.language = language, !.data_hash = hash, !.data = page]
                          : o \in before}
       /\ case = "none" => after = before

C3_UpsertCases ==
    [][IsRun =>
        LET cids == ContentIds(upstream)
            handled == 1..last'.done
            caseOf(i) == HandledCase(store, cids[i][2], upstream[cids[i][2]].page,
                                     last'.force)
        IN /\ \A i \in handled :
                 HandledRight(store, store', cids[i][1], cids[i][2],
                              upstream[cids[i][2]].page, last'.force)
           /\ last'.added = Cardinality({i \in handled : caseOf(i) = "insert"})
           /\ last'.updated = Cardinality({i \in handled : caseOf(i) = "overwrite"})
      ]_vars

C3_Witness ==
    /\ ~last.force /\ last.status = "ok"
    /\ last.added = 1 /\ last.updated = 1

\* C4: the table never holds two snapshots with the same contentful_id, nor
\* two with the same (content_type, language).
C4_StoreUnique ==
    \A r1, r2 \in store :
        (\/ r1.contentful_id = r2.contentful_id
         \/ r1.content_type = r2.content_type /\ r1.language = r2.language)
        => r1 = r2

C4_Witness ==
    /\ Cardinality(store) = 2
    /\ last.status = "IntegrityError"

\* C5: when both runs are about to insert a row for the same new
\* (content_type, language) at the same time, the first insert succeeds and
\* the second is refused: once both have tried, exactly one has inserted and
\* the other run has ended with IntegrityError; the table never holds two
\* rows for the pair.
C5_OneInsertWins ==
    /\ Cardinality(race.won) <= 1
    /\ race.lost # {} => race.won # {}
    /\ race.won \cup race.lost = Procs =>
          /\ Cardinality(race.won) = 1
          /\ \A p \in race.lost : pc[p] = "raised" /\ run[p].status = "IntegrityError"
    /\ race # NoRace =>
          Cardinality({row \in store : RowPair(row) = race.pair}) <= 1

C5_Witness ==
    /\ race # NoRace
    /\ race.won \cup race.lost = Procs
    /\ \E row \in store : RowPair(row) = race.pair


\* C16: when a run of refresh() returns, the table holds, for every tracked
\* entry listed upstream, a snapshot with its contentful_id whose data is the
\* data fetched in the run, whose data_hash is the hash of that data and whose
\* language is the one read from it - with or without the force flag, and
\* whatever the table held before.
C16_CompletedRunConverges ==
    last.status = "ok" =>
        \A i \in 1..Len(ContentIds(upstream)) :
            LET ctype == ContentIds(upstream)[i][1]
                page_id == ContentIds(upstream)[i][2]
                fetched == upstream[page_id].page
            IN \E row \in store :
                  /\ row.contentful_id = page_id
                  /\ row.data = fetched
                  /\ row.data_hash = data_hash(fetched)
                  /\ row.language = IF ctype = connectHomepage THEN fetched.name
                                    ELSE fetched.locale

C16_Witness ==
    /\ last.status = "ok" /\ ~last.force
    /\ last.added = 0 /\ last.updated = 1
    /\ Len(ContentIds(upstream)) = 2
    /\ \E row \in store : row.data.body = "b1" /\ row.language = "de"

\* the ids of the content ids a run lists
ListedIds(up) == {ContentIds(up)[i][2] : i \in 1..Len(ContentIds(up))}

\* C17: a run of refresh(), whether it returns or raises on a fetch or a
\* constraint, deletes no snapshot and changes the contentful_id and the
\* content_type of none; the snapshots whose id the run does not list are
\* left as they were, and what the run wrote for the entries before the one
\* it raised on stays written.
C17_RunFrame ==
    [][IsRun =>
        LET cids == ContentIds(upstream)
        IN /\ \A row \in store : \E kept \in store' :
                 /\ kept.contentful_id = row.contentful_id
                 /\ kept.content_type = row.content_type
           /\ \A row \in store : row.contentful_id \notin ListedIds(upstream) => row \in store'
           /\ \A i \in 1..last'.done : \E row \in store' :
                 /\ row.contentful_id = cids[i][2]
                 /\ row.data = upstream[cids[i][2]].page
      ]_vars

C17_Witness ==
    /\ last.status \in {"HTTPError", "IntegrityError"}
    /\ last.done = 1
    /\ last.updated = 1
    /\ Cardinality(store) = 2
    /\ \E row \in store : row.data.body = "b1"

(* ============================== api.py ================================== *)
\* number of children of a rich text node
MaxKids == 3

StartsWith(str, prefix) ==
    Len(str) >= Len(prefix) /\ SubSeq(str, 1, Len(prefix)) = prefix

\* Python's `sub in str`
Contains(str, sub) ==
    \E i \in 1..(Len(str) + 1) :
        i + Len(sub) - 1 <= Len(str) /\ SubSeq(str, i, i + Len(sub) - 1) = sub

\* dict.get(key, default)
DictGet(dict, key, default) == IF key \in DOMAIN dict THEN dict[key] ELSE default

\* Python's None where a string is expected (a field that is not set), and
\* where an entry, an asset or a rich text node is expected
None == "None (NoneType)"
NoneObj == [nodeType |-> "NoneType"]

\* fields.get(key), for a field that holds a string
FieldGet(fields, key) == DictGet(fields, key, None)

\* fields.get(key), for a field that holds an entry, an asset or a node
FieldGetObj(fields, key) == DictGet(fields, key, NoneObj)

\* truth value of a string or None
Truthy(value) == value # None /\ value # ""

\* ' '.join(classes)
RECURSIVE Join(_, _)
Join(sep, strs) ==
    IF strs = <<>> THEN ""
    ELSE IF Len(strs) = 1 THEN strs[1]
    ELSE strs[1] \o sep \o Join(sep, Tail(strs))

\* round(num / den): to the nearest integer, a tie to the even one
Round(num, den) ==
    LET q == num \div den
        r == num % den
    IN IF 2 * r < den THEN q
       ELSE IF 2 * r > den THEN q + 1
       ELSE IF q % 2 = 0 THEN q ELSE q + 1

(* ------------------------------ style tables --------------------------- *)
PRODUCT_THEMES ==
    ("Firefox" :> "family") @@ ("Firefox Browser" :> "firefox")
    @@ ("Firefox Browser Beta" :> "beta") @@ ("Firefox Browser Developer" :> "developer")
    @@ ("Firefox Browser Nightly" :> "nightly") @@ ("Firefox Browser Focus" :> "focus")
    @@ ("Firefox Monitor" :> "monitor") @@ ("Firefox Lockwise" :> "lockwise")
    @@ ("Mozilla" :> "mozilla") @@ ("Mozilla VPN" :> "vpn") @@ ("Pocket" :> "pocket")

WIDTHS ==
    ("Extra Small" :> "xs") @@ ("Small" :> "sm") @@ ("Medium" :> "md")
    @@ ("Large" :> "lg") @@ ("Extra Large" :> "xl") @@ ("Max" :> "max")

ASPECT_RATIOS == ("1:1" :> "1-1") @@ ("3:2" :> "3-2") @@ ("16:9" :> "16-9")

\* the multipliers 1, 0.6666 and 0.5625, in ten-thousandths
ASPECT_MULTIPLIER == ("1:1" :> 10000) @@ ("3:2" :> 6666) @@ ("16:9" :> 5625)

LAYOUT_CLASS ==
    ("layout2Cards" :> "mzp-l-card-half") @@ ("layout3Cards" :> "mzp-l-card-third")
    @@ ("layout4Cards" :> "mzp-l-card-quarter") @@ ("layout5Cards" :> "mzp-l-card-hero")

THEME_CLASS ==
    ("Light" :> "") @@ ("Light (alternative)" :> "mzp-t-background-alt")
    @@ ("Dark" :> "mzp-t-dark")
    @@ ("Dark (alternative)" :> "mzp-t-dark mzp-t-background-alt")

COLUMN_CLASS ==
    ("1" :> "") @@ ("2" :> "mzp-l-columns mzp-t-columns-two ")
    @@ ("3" :> "mzp-l-columns mzp-t-columns-three")
    @@ ("4" :> "mzp-l-columns mzp-t-columns-four")

SPLIT_LAYOUT_CLASS ==
    ("Even" :> "") @@ ("Narrow" :> "mzp-l-split-body-narrow")
    @@ ("Wide" :> "mzp-l-split-body-wide")

SPLIT_MEDIA_WIDTH_CLASS ==
    ("Fill available width" :> "")
    @@ ("Fill available height" :> "mzp-l-split-media-constrain-height")
    @@ ("Overflow container" :> "mzp-l-split-media-overflow")

SPLIT_V_ALIGN_CLASS ==
    ("Top" :> "mzp-l-split-v-start") @@ ("Center" :> "mzp-l-split-v-center")
    @@ ("Bottom" :> "mzp-l-split-v-end")

SPLIT_H_ALIGN_CLASS ==
    ("Left" :> "mzp-l-split-h-start") @@ ("Center" :> "mzp-l-split-h-center")
    @@ ("Right" :> "mzp-l-split-h-end")

SPLIT_POP_CLASS ==
    ("None" :> "") @@ ("Both" :> "mzp-l-split-pop") @@ ("Top" :> "mzp-l-split-pop-top")
    @@ ("Bottom" :> "mzp-l-split-pop-bottom")

PICTO_ICON_SIZE ==
    ("Small" :> 32) @@ ("Medium" :> 48) @@ ("Large" :> 64) @@ ("Extra Large" :> 96)
    @@ ("Extra Extra Large" :> 192)

(* --------------------------- rendered results -------------------------- *)
\* what a call returned: status "ok" and the value, or the exception raised
Ok(out) == [status |-> "ok", out |-> out]
Raise(exc) == [status |-> exc, out |-> ""]

\* a + b, when each of the two may have raised
Cat(a, b) ==
    IF a.status # "ok" THEN a ELSE IF b.status # "ok" THEN b ELSE Ok(a.out \o b.out)

(* --------------------------- style resolvers --------------------------- *)
_get_height(width, aspect) == Round(width * DictGet(ASPECT_MULTIPLIER, aspect, 0), 10000)

\* image.url(**kwargs): the asset's file url and the serialized parameters
AssetUrl(image, args) == image.file.url \o (IF args = "" THEN "" ELSE "?" \o args)

_get_image_url(image, width) == "https:" \o AssetUrl(image, "w=" \o ToString(width))

_get_card_image_url(image, width, aspect) ==
    "https:" \o AssetUrl(image, "w=" \o ToString(width)
                                \o "&h=" \o ToString(_get_height(width, aspect))
                                \o "&fit=fill&f=faces")

_get_product_class(product) == "mzp-t-product-" \o DictGet(PRODUCT_THEMES, product, "")
_get_layout_class(layout) == DictGet(LAYOUT_CLASS, layout, "")
_get_aspect_ratio_class(aspect_ratio) ==
    "mzp-has-aspect-" \o DictGet(ASPECT_RATIOS, aspect_ratio, "")
_get_width_class(width) ==
    IF Truthy(width) THEN "mzp-t-content-" \o DictGet(WIDTHS, width, "") ELSE ""
_get_theme_class(theme) == DictGet(THEME_CLASS, theme, "")
_get_column_class(columns) == DictGet(COLUMN_CLASS, columns, "")

\* _get_youtube_id: parse_qs of the URL's query, then queries["v"][0]
_get_youtube_id(youtube_url) ==
    IF "v" \in DOMAIN youtube_url.queries THEN Ok(youtube_url.queries["v"][1])
    ELSE Raise("KeyError")

(* ----------------------------- rich text nodes ------------------------- *)
TextNode(value, marks) == [nodeType |-> "text", value |-> value, marks |-> marks]
BlockNode(nodeType, content) == [nodeType |-> nodeType, content |-> content]
LinkNode(uri, content) ==
    [nodeType |-> "hyperlink", data |-> [uri |-> uri], content |-> content]
InlineEntryNode(entry_id) ==
    [nodeType |-> "embedded-entry-inline",
     data |-> [target |-> [sys |-> [id |-> entry_id]]]]

\* urlparse(uri): the parts of the URIs that occur
UriParts(scheme, netloc, path, query, fragment) ==
    [scheme |-> scheme, netloc |-> netloc, path |-> path, query |-> query,
     fragment |-> fragment]

Uri(netloc, path, query) == UriParts("https", netloc, path, query, "")

\* urlunparse(url)
UrlUnparse(url) ==
    (IF url.scheme = "" THEN "" ELSE url.scheme \o ":")
    \o (IF url.netloc = "" THEN "" ELSE "//" \o url.netloc)
    \o url.path
    \o (IF url.query = "" THEN "" ELSE "?" \o url.query)
    \o (IF url.fragment = "" THEN "" ELSE "#" \o url.fragment)

\* ContentfulPage.client.entry(entry_id) for the entries embedded in rich text
ClientEntry(entry_id) ==
    CASE entry_id = "logo" ->
           [content_type |-> "componentLogo",
            fields |-> [product_icon |-> "Firefox", icon_size |-> "Small"]]
      [] entry_id = "wordmark" ->
           [content_type |-> "componentWordmark", fields |-> [product_icon |-> "Pocket"]]
      [] OTHER ->
           [content_type |-> "componentOther", fields |-> [name |-> "x"]]

\* render_to_string(template, data, request): the template with its context
RenderToString(template, data) == "{% " \o template \o data \o " %}"

\* _make_logo / _make_wordmark
MakeIcon(template, entry) ==
    LET fields == entry.fields
    IN IF "product_icon" \notin DOMAIN fields THEN Raise("KeyError")
       ELSE Ok(RenderToString(template,
                 " product_name=" \o fields.product_icon
                 \o " product_icon=" \o DictGet(PRODUCT_THEMES, fields.product_icon, "")
                 \o " icon_size=" \o (IF "icon_size" \in DOMAIN fields
                                      THEN DictGet(WIDTHS, fields.icon_size, "")
                                      ELSE "md")))

_make_logo(entry) == MakeIcon("includes/contentful/logo.html", entry)
_make_wordmark(entry) == MakeIcon("includes/contentful/wordmark.html", entry)

\* _make_cta_button, for an entry with fields action, label, theme, size
_make_cta_button(entry) ==
    IF entry = NoneObj THEN Raise("AttributeError") ELSE
    LET fields == entry.fields
        button_class ==
            "mzp-t-product" \o " "
            \o (IF DictGet(fields, "theme", "") = "Secondary" THEN "mzp-t-secondary" ELSE "")
            \o " "
            \o (IF DictGet(fields, "size", "") # ""
                THEN "mzp-t-" \o DictGet(WIDTHS, fields.size, "") ELSE "")
    IN Ok(RenderToString("includes/contentful/cta.html",
            " action=" \o DictGet(fields, "action", "None")
            \o " label=" \o DictGet(fields, "label", "None")
            \o " button_class=" \o button_class
            \o " location="
            \o " cta_text=" \o DictGet(fields, "label", "None")))

\* _make_plain_text: the 'value' of every child, joined
RECURSIVE PlainTextFrom(_, _)
PlainTextFrom(content, i) ==
    IF i > Len(content) THEN Ok("")
    ELSE IF "value" \notin DOMAIN content[i] THEN Raise("KeyError")
    ELSE Cat(Ok(content[i].value), PlainTextFrom(content, i + 1))

_make_plain_text(n) == PlainTextFrom(n.content, 1)

\* _only_child: the loop from child i on, `found` matching children seen
RECURSIVE OnlyChildFrom(_, _, _, _)
OnlyChildFrom(content, nodeType, i, found) ==
    IF i > Len(content) THEN TRUE
    ELSE LET child_node == content[i]
         IN IF child_node.nodeType # nodeType /\ found = 0
            THEN IF child_node.nodeType = "text" /\ child_node.value # ""
                 THEN FALSE
                 ELSE OnlyChildFrom(content, nodeType, i + 1, found)
            ELSE IF child_node.nodeType = nodeType
                 THEN IF found + 1 > 1 THEN FALSE
                      ELSE OnlyChildFrom(content, nodeType, i + 1, found + 1)
                 ELSE OnlyChildFrom(content, nodeType, i + 1, found)

_only_child(n, nodeType) == OnlyChildFrom(n.content, nodeType, 1, 0)

\* TextRenderer of the library: the value, wrapped once per mark
\* (StrongRenderer: strong, EmphasisRenderer: em)
RECURSIVE RenderMarks(_, _, _)
RenderMarks(value, marks, i) ==
    IF i > Len(marks) THEN value
    ELSE LET tag == IF marks[i] = "bold" THEN "strong" ELSE "em"
         IN RenderMarks("<" \o tag \o ">" \o value \o "</" \o tag \o ">", marks, i + 1)

\* quote_plus of one character: letters, digits and _.-~ stay, a space
\* becomes +, the others %XX
QuoteChar(c) ==
    CASE c = " " -> "+"
      [] c = "&" -> "%26"
      [] c = "=" -> "%3D"
      [] c = "/" -> "%2F"
      [] c = "?" -> "%3F"
      [] c = "#" -> "%23"
      [] OTHER -> c

\* quote_plus(str), from character i on
RECURSIVE QuotePlusFrom(_, _)
QuotePlusFrom(str, i) ==
    IF i > Len(str) THEN ""
    ELSE QuoteChar(SubSeq(str, i, i)) \o QuotePlusFrom(str, i + 1)

QuotePlus(str) == QuotePlusFrom(str, 1)

\* urlencode(params) of LinkRenderer
UtmParams(info) ==
    "utm_source=" \o QuotePlus("www.mozilla.org")
    \o "&utm_medium=" \o QuotePlus("referral")
    \o "&utm_campaign=" \o QuotePlus(info.utm_campaign)

_render_list(tag, content) ==
    "<" \o tag \o " class='mzp-u-list-styled'>" \o content \o "</" \o tag \o ">"

\* the test of LiRenderer.render
LiTakesFirstChildOnly(n) == _only_child(n, "text")

RECURSIVE RenderNode(_, _)
RECURSIVE RenderContentFrom(_, _, _)

\* BaseBlockRenderer._render_content: the children rendered and joined
_render_content(n, info) ==
    IF "content" \notin DOMAIN n THEN Raise("KeyError")
    ELSE RenderContentFrom(n.content, 1, info)

RenderContentFrom(content, i, info) ==
    IF i > Len(content) THEN Ok("")
    ELSE Cat(RenderNode(content[i], info), RenderContentFrom(content, i + 1, info))

\* LinkRenderer.render
LinkRenderer(n, info) ==
    LET url == n.data.uri
        ref == IF Contains(url.netloc, "mozilla.org") /\ url.netloc # "www.mozilla.org"
                  /\ ~Contains(url.query, "utm_")
               THEN (IF url.query = "" THEN "?" ELSE "&") \o UtmParams(info)
               ELSE ""
        external == url.netloc # "www.mozilla.org"
        rel == IF external THEN " rel=\"external noopener\"" ELSE ""
        cta_text == IF external THEN _make_plain_text(n) ELSE Ok("")
        data_cta == IF external
                    THEN Cat(Ok(" data-cta-type=\"link\" data-cta-text=\""),
                             Cat(cta_text, Ok("\"")))
                    ELSE Ok("")
    IN Cat(Ok("<a href=\"" \o UrlUnparse(url) \o ref \o "\""),
           Cat(data_cta, Cat(Ok(rel \o ">"), Cat(_render_content(n, info), Ok("</a>")))))

\* LiRenderer.render
LiRenderer(n, info) ==
    IF LiTakesFirstChildOnly(n)
    THEN IF n.content = <<>> THEN Raise("IndexError")
         ELSE Cat(Ok("<li>"), Cat(_render_content(n.content[1], info), Ok("</li>")))
    ELSE Cat(Ok("<li>"), Cat(_render_content(n, info), Ok("</li>")))

\* PRenderer.render
PRenderer(n, info) ==
    IF _only_child(n, "hyperlink")
    THEN Cat(Ok("<p class=\"mzp-c-cta-link\">"), Cat(_render_content(n, info), Ok("</p>")))
    ELSE IF Len(n.content) = 1 /\ n.content[1].nodeType = "text" /\ n.content[1].value = ""
    THEN Ok("")
    ELSE Cat(Ok("<p>"), Cat(_render_content(n, info), Ok("</p>")))

\* InlineEntryRenderer.render
InlineEntryRenderer(n) ==
    LET entry == ClientEntry(n.data.target.sys.id)
        content_type == entry.content_type
    IN IF content_type = "componentLogo" THEN _make_logo(entry)
       ELSE IF content_type = "componentWordmark" THEN _make_wordmark(entry)
       ELSE IF content_type = "componentCtaButton" THEN _make_cta_button(entry)
       ELSE Ok(content_type)

\* the renderer registered for the node's type (ContentfulPage._renderer)
RenderNode(n, info) ==
    CASE n.nodeType = "text" -> Ok(RenderMarks(n.value, n.marks, 1))
      [] n.nodeType = "hyperlink" -> LinkRenderer(n, info)
      [] n.nodeType = "paragraph" -> PRenderer(n, info)
      [] n.nodeType = "list-item" -> LiRenderer(n, info)
      [] n.nodeType = "unordered-list" ->
           LET c == _render_content(n, info)
           IN IF c.status # "ok" THEN c ELSE Ok(_render_list("ul", c.out))
      [] n.nodeType = "ordered-list" ->
           LET c == _render_content(n, info)
           IN IF c.status # "ok" THEN c ELSE Ok(_render_list("ol", c.out))
      [] n.nodeType = "embedded-entry-inline" -> InlineEntryRenderer(n)
      [] n.nodeType = "document" -> _render_content(n, info)

\* ContentfulPage.render_rich_text
render_rich_text(n, info) == IF n = NoneObj THEN Ok("") ELSE RenderNode(n, info)

(* ----------------- rich text: the nodes that are rendered ---------------- *)
\* the sequences over S of 1 to n members
SeqsUpTo(S, n) == UNION {[1..k -> S] : k \in 1..n}

EmptyText == TextNode("", <<>>)
TextA == TextNode("a", <<>>)
BoldB == TextNode("b", <<"bold">>)
SiteLink == LinkNode(Uri("www.mozilla.org", "/firefox/", ""), <<TextA>>)
OtherLink == LinkNode(Uri("support.mozilla.org", "/kb", ""), <<TextA, BoldB>>)

\* children of a paragraph (the CMS stores no paragraph without a child: an
\* empty one holds an empty text leaf)
Inlines == {EmptyText, TextA, BoldB, SiteLink, OtherLink, InlineEntryNode("logo")}

Paragraphs == {BlockNode("paragraph", c) : c \in SeqsUpTo(Inlines, MaxKids)}

ParaA == BlockNode("paragraph", <<TextA>>)
ParaLink == BlockNode("paragraph", <<SiteLink>>)
ParaMixed == BlockNode("paragraph", <<TextA, BoldB>>)
SubList == BlockNode("unordered-list", <<BlockNode("list-item", <<ParaA>>)>>)

\* children of a list item
LiKids == {ParaA, ParaLink, ParaMixed, SubList, TextA, EmptyText}

ListItems == {BlockNode("list-item", c) : c \in SeqsUpTo(LiKids, MaxKids)}

\* the hosts hyperlinks point at: the primary site, its sister sites, other
\* sites, and none (a link relative to the page)
LinkHosts == {"www.mozilla.org", "support.mozilla.org", "mozilla.org", "example.com",
              "notmozilla.org.example.com", ""}

LinkQueries == {"", "a=1", "utm_source=news", "q=utm_"}

LinkFragments == {"", "top"}

LinkLabels == {<<TextA>>, <<TextA, BoldB>>}

Links ==
    {LinkNode(UriParts(IF h = "" THEN "" ELSE "https", h, "/kb", q, f), c) :
        h \in LinkHosts, q \in LinkQueries, f \in LinkFragments, c \in LinkLabels}

PageInfos == {[utm_campaign |-> "home"], [utm_campaign |-> "firefox-sync"],
              [utm_campaign |-> "fx news"]}

\* a request renders one rich text node
RenderRichText ==
    /\ html.status = "pending"
    /\ html' = render_rich_text(node, page_info)
    /\ UNCHANGED <<syncVars, page_info, node, pageVars, styleVars, handlerVars>>

InitRich ==
    /\ SyncIdle
    /\ page_info \in PageInfos
    /\ node \in Paragraphs \cup ListItems \cup Links
    /\ html = NoHtml
    /\ PageIdle
    /\ StyleIdle
    /\ HandlerIdle

NextRich == RenderRichText

SpecRich == InitRich /\ [][NextRich]_vars


(* ------------------------- pages: content handlers ---------------------- *)
\* a call made inside another: if it raised, the exception propagates, else
\* the caller goes on with what it returned
Bind(returned, GoOn(_)) == IF returned.status # "ok" THEN returned ELSE GoOn(returned.out)

\* ContentfulPage.get_text_data
get_text_data(value, info) ==
    Bind(render_rich_text(value, info), LAMBDA body :
    Ok([component |-> "text",
        body |-> body,
        width_class |-> _get_width_class("Medium")]))

\* ContentfulPage.get_hero_data
get_hero_data(entry_obj, info) ==
    LET fields == entry_obj.fields
        hero_reverse == FieldGet(fields, "image_side")
        product_icon == FieldGet(fields, "product_icon")
        has_cta == "cta" \in DOMAIN fields
    IN IF "image" \notin DOMAIN fields THEN Raise("KeyError")
       ELSE
       Bind(render_rich_text(FieldGetObj(fields, "body"), info), LAMBDA hero_body :
       Bind(IF has_cta THEN _make_cta_button(fields.cta) ELSE Ok(""), LAMBDA cta :
       Ok([component |-> "hero",
           theme_class |-> _get_theme_class(FieldGet(fields, "theme")),
           product_class |->
               IF Truthy(product_icon) /\ product_icon # "None"
               THEN _get_product_class(product_icon) ELSE "",
           title |-> FieldGet(fields, "heading"),
           tagline |-> FieldGet(fields, "tagline"),
           body |-> hero_body,
           image |-> _get_image_url(fields.image, 800),
           image_class |-> IF hero_reverse = "Left" THEN "mzp-l-reverse" ELSE "",
           include_cta |-> has_cta,
           cta |-> cta])))

\* ContentfulPage.get_section_data
get_section_data(entry_obj) ==
    Ok([component |-> "sectionHeading",
        heading |-> FieldGet(entry_obj.fields, "heading")])

\* ContentfulPage.get_split_data
get_split_data(entry_obj, info) ==
    LET fields == entry_obj.fields
        get_split_class ==
            Join(" ", <<IF FieldGet(fields, "image_side") = "Left"
                        THEN "mzp-l-split-reversed" ELSE "",
                        DictGet(SPLIT_LAYOUT_CLASS, FieldGet(fields, "body_width"), ""),
                        DictGet(SPLIT_POP_CLASS, FieldGet(fields, "image_pop"), "")>>)
        get_body_class ==
            Join(" ", <<DictGet(SPLIT_V_ALIGN_CLASS,
                                FieldGet(fields, "body_vertical_alignment"), ""),
                        DictGet(SPLIT_H_ALIGN_CLASS,
                                FieldGet(fields, "body_horizontal_alignment"), "")>>)
        get_media_class ==
            Join(" ", <<DictGet(SPLIT_MEDIA_WIDTH_CLASS, FieldGet(fields, "image_width"), ""),
                        DictGet(SPLIT_V_ALIGN_CLASS,
                                FieldGet(fields, "image_vertical_alignment"), ""),
                        DictGet(SPLIT_H_ALIGN_CLASS,
                                FieldGet(fields, "image_horizontal_alignment"), "")>>)
        \* mobile_display: the list of options ticked, as a set
        get_mobile_class ==
            IF "mobile_display" \notin DOMAIN fields \/ fields.mobile_display = {} THEN ""
            ELSE Join(" ", <<IF "Center content" \in fields.mobile_display
                             THEN "mzp-l-split-center-on-sm-md" ELSE "",
                             IF "Hide image" \in fields.mobile_display
                             THEN "mzp-l-split-hide-media-on-sm-md" ELSE "">>)
    IN IF "image" \notin DOMAIN fields THEN Raise("KeyError")
       ELSE
       Bind(render_rich_text(FieldGetObj(fields, "body"), info), LAMBDA body :
       Ok([component |-> "split",
           block_class |-> get_split_class,
           theme_class |-> _get_theme_class(FieldGet(fields, "theme")),
           body_class |-> get_body_class,
           body |-> body,
           media_class |-> get_media_class,
           image |-> _get_image_url(fields.image, 800),
           mobile_class |-> get_mobile_class]))

\* ContentfulPage.get_callout_data
get_callout_data(entry_obj, info) ==
    LET fields == entry_obj.fields
        product_icon == FieldGet(fields, "product_icon")
    IN Bind(IF "body" \in DOMAIN fields THEN render_rich_text(fields.body, info) ELSE Ok(""),
            LAMBDA body :
       Bind(_make_cta_button(FieldGetObj(fields, "cta")), LAMBDA cta :
       Ok([component |-> "callout",
           theme_class |-> _get_theme_class(FieldGet(fields, "theme")),
           product_class |->
               IF Truthy(product_icon) THEN _get_product_class(product_icon) ELSE "",
           title |-> FieldGet(fields, "heading"),
           body |-> body,
           cta |-> cta])))

\* ContentfulPage.get_card_data
get_card_data(entry_obj, aspect_ratio_arg, info) ==
    IF entry_obj = NoneObj THEN Raise("AttributeError") ELSE
    LET \* need a fallback aspect ratio
        aspect_ratio == IF Truthy(aspect_ratio_arg) THEN aspect_ratio_arg ELSE "16:9"
        fields == entry_obj.fields
        image_url == IF "image" \in DOMAIN fields
                     THEN _get_card_image_url(fields.image, 800, aspect_ratio) ELSE ""
        highres_image_url == image_url
    IN Bind(IF "body" \in DOMAIN fields THEN render_rich_text(fields.body, info) ELSE Ok(""),
            LAMBDA card_body :
       Bind(IF "you_tube" \in DOMAIN fields THEN _get_youtube_id(fields.you_tube) ELSE Ok(""),
            LAMBDA youtube_id :
       Ok([component |-> "card",
           heading |-> FieldGet(fields, "heading"),
           tag |-> FieldGet(fields, "tag"),
           link |-> FieldGet(fields, "link"),
           body |-> card_body,
           aspect_ratio |-> IF image_url # ""
                            THEN _get_aspect_ratio_class(aspect_ratio) ELSE "",
           highres_image_url |-> highres_image_url,
           image_url |-> image_url,
           youtube_id |-> youtube_id])))

\* the test of get_large_card_data: `if large_card_image`
LargeCardHasImage(fields) == "image" \in DOMAIN fields

\* ContentfulPage.get_large_card_data
get_large_card_data(entry_obj, card_obj, info) ==
    LET fields == entry_obj.fields
    IN Bind(get_card_data(card_obj, "16:9", info), LAMBDA card_data :
       IF LargeCardHasImage(fields)
       THEN LET large_url == _get_card_image_url(fields.image, 1860, "16:9")
            IN \* over-write with large values
               Ok([card_data EXCEPT !.component = "large_card",
                                    !.highres_image_url = large_url,
                                    !.image_url = large_url])
       ELSE Ok(card_data))

\* every card in the declared ratio
MutDeclaredAspect(follows_large_card, aspect_ratio) == aspect_ratio

\* the aspect ratio get_card_layout_data hands to get_card_data for a card of
\* the content
ThisAspect(follows_large_card, aspect_ratio) ==
    IF follows_large_card THEN "1:1" ELSE aspect_ratio

\* the loop of get_card_layout_data over fields.content, from card i on
RECURSIVE CardsFrom(_, _, _, _, _)
CardsFrom(cards, i, follows_large_card, aspect_ratio, info) ==
    IF i > Len(cards) THEN Ok(<<>>)
    ELSE Bind(get_card_data(cards[i], ThisAspect(follows_large_card, aspect_ratio), info),
              LAMBDA card_data :
         Bind(CardsFrom(cards, i + 1, FALSE, aspect_ratio, info), LAMBDA rest :
         Ok(<<card_data>> \o rest)))

\* ContentfulPage.get_card_layout_data
get_card_layout_data(entry_obj, info) ==
    LET fields == entry_obj.fields
        aspect_ratio == FieldGet(fields, "aspect_ratio")
        layout == entry_obj.sys.content_type.id
    IN Bind(IF layout # "layout5Cards" THEN Ok(<<>>)
            ELSE IF "large_card" \notin DOMAIN fields THEN Raise("AttributeError")
            ELSE Bind(get_large_card_data(fields.large_card,
                                          FieldGetObj(fields.large_card.fields, "card"), info),
                      LAMBDA large_card_data : Ok(<<large_card_data>>)),
            LAMBDA large :
       IF "content" \notin DOMAIN fields THEN Raise("TypeError")
       ELSE
       Bind(CardsFrom(fields.content, 1, layout = "layout5Cards", aspect_ratio, info),
            LAMBDA cards :
       Ok([component |-> "cardLayout",
           layout_class |-> _get_layout_class(layout),
           aspect_ratio |-> aspect_ratio,
           cards |-> large \o cards])))

\* ContentfulPage.get_picto_data; width_text is str(image_width), as the
\* image URL carries it
get_picto_data(picto_obj, width_text, info) ==
    LET fields == picto_obj.fields
    IN Bind(IF "body" \in DOMAIN fields THEN render_rich_text(fields.body, info)
            ELSE Ok(FALSE),
            LAMBDA body :
       Ok([component |-> "picto",
           heading |-> FieldGet(fields, "heading"),
           body |-> body,
           image_url |-> IF "icon" \in DOMAIN fields
                         THEN "https:" \o AssetUrl(fields.icon, "w=" \o width_text)
                         ELSE ""]))

\* the loop of get_picto_layout_data over fields.content, from picto i on
RECURSIVE PictosFrom(_, _, _, _)
PictosFrom(pictos, i, width_text, info) ==
    IF i > Len(pictos) THEN Ok(<<>>)
    ELSE Bind(get_picto_data(pictos[i], width_text, info), LAMBDA picto_data :
         Bind(PictosFrom(pictos, i + 1, width_text, info), LAMBDA rest :
         Ok(<<picto_data>> \o rest)))

\* ContentfulPage.get_picto_layout_data
get_picto_layout_data(entry, info) ==
    LET fields == entry.fields
        blocks_per_row == IF "blocks_per_row" \in DOMAIN fields
                          THEN ToString(fields.blocks_per_row) ELSE "None"
        column_class == _get_column_class(blocks_per_row)
        get_layout_class ==
            Join(" ", <<_get_width_class(FieldGet(fields, "width")),
                        IF column_class # "" THEN column_class ELSE "3",
                        IF FieldGet(fields, "icon_position") = "Side"
                        THEN "mzp-t-picto-side" ELSE "",
                        IF FieldGet(fields, "block_alignment") = "Center"
                        THEN "mzp-t-picto-center" ELSE "",
                        _get_theme_class(FieldGet(fields, "theme"))>>)
        icon_size == FieldGet(fields, "icon_size")
        size_known == ~Truthy(icon_size) \/ icon_size \in DOMAIN PICTO_ICON_SIZE
        image_width == IF Truthy(icon_size) THEN DictGet(PICTO_ICON_SIZE, icon_size, None)
                       ELSE PICTO_ICON_SIZE["Large"]
        width_text == IF size_known THEN ToString(image_width) ELSE "None"
        heading_level == FieldGet(fields, "heading_level")
    IN IF "content" \notin DOMAIN fields THEN Raise("TypeError")
       ELSE
       Bind(PictosFrom(fields.content, 1, width_text, info), LAMBDA pictos :
       Ok([component |-> "pictoLayout",
           layout_class |-> get_layout_class,
           heading_level |-> IF Truthy(heading_level)
                             THEN SubSeq(heading_level, 2, Len(heading_level))
                             ELSE 3,
           image_width |-> image_width,
           pictos |-> pictos]))

\* the columns get_text_column_data renders, in order
BodyColumns == <<"body_column_one", "body_column_two", "body_column_three",
                 "body_column_four">>

RECURSIVE ColumnsFrom(_, _, _, _)
ColumnsFrom(fields, i, cols, info) ==
    IF i > cols THEN Ok(<<>>)
    ELSE Bind(render_rich_text(FieldGetObj(fields, BodyColumns[i]), info), LAMBDA col :
         Bind(ColumnsFrom(fields, i + 1, cols, info), LAMBDA rest :
         Ok(<<col>> \o rest)))

\* ContentfulPage.get_text_column_data
get_text_column_data(cols, entry_obj, info) ==
    LET fields == entry_obj.fields
        get_content_class ==
            Join(" ", <<_get_width_class(FieldGet(fields, "width")),
                        _get_column_class(ToString(cols)),
                        _get_theme_class(FieldGet(fields, "theme")),
                        IF FieldGet(fields, "block_alignment") = "Center"
                        THEN "mzp-u-center" ELSE "">>)
    IN Bind(ColumnsFrom(fields, 1, cols, info), LAMBDA columns :
       Ok([component |-> "textColumns",
           layout_class |-> get_content_class,
           content |-> columns]))

(* ----------------------------- pages: get_content ----------------------- *)
\* ContentfulPage.CONTENT_TYPE_MAP; css and js as the sets proc() adds
CardLayoutInfo == [proc |-> "get_card_layout_data", css |-> {"t-card-layout"},
                   js |-> {"c-card"}]

TextColumnInfo(proc_name) == [proc |-> proc_name, css |-> {"t-multi-column"}, js |-> {}]

CONTENT_TYPE_MAP ==
    ("componentHero" :> [proc |-> "get_hero_data", css |-> {"c-hero"}, js |-> {}])
    @@ ("componentSectionHeading" :>
            [proc |-> "get_section_data", css |-> {"c-section-heading"}, js |-> {}])
    @@ ("componentSplitBlock" :> [proc |-> "get_split_data", css |-> {"c-split"}, js |-> {}])
    @@ ("componentCallout" :>
            [proc |-> "get_callout_data", css |-> {"c-call-out"}, js |-> {}])
    @@ ("layout2Cards" :> CardLayoutInfo) @@ ("layout3Cards" :> CardLayoutInfo)
    @@ ("layout4Cards" :> CardLayoutInfo) @@ ("layout5Cards" :> CardLayoutInfo)
    @@ ("layoutPictoBlocks" :>
            [proc |-> "get_picto_layout_data", css |-> {"c-picto", "t-multi-column"},
             js |-> {}])
    @@ ("textOneColumn" :> TextColumnInfo("get_text_column_data_1"))
    @@ ("textTwoColumns" :> TextColumnInfo("get_text_column_data_2"))
    @@ ("textThreeColumns" :> TextColumnInfo("get_text_column_data_3"))
    @@ ("textFourColumns" :> TextColumnInfo("get_text_column_data_4"))

\* get_text_column_data_N = partialmethod(get_text_column_data, N)
TextColumnProcs ==
    ("get_text_column_data_1" :> 1) @@ ("get_text_column_data_2" :> 2)
    @@ ("get_text_column_data_3" :> 3) @@ ("get_text_column_data_4" :> 4)

\* getattr(self, ctype_info['proc'])(item)
Processor(proc_name, item, info) ==
    CASE proc_name = "get_hero_data" -> get_hero_data(item, info)
      [] proc_name = "get_section_data" -> get_section_data(item)
      [] proc_name = "get_split_data" -> get_split_data(item, info)
      [] proc_name = "get_callout_data" -> get_callout_data(item, info)
      [] proc_name = "get_card_layout_data" -> get_card_layout_data(item, info)
      [] proc_name = "get_picto_layout_data" -> get_picto_layout_data(item, info)
      [] proc_name \in DOMAIN TextColumnProcs ->
           get_text_column_data(TextColumnProcs[proc_name], item, info)

\* ContentfulPage.get_info_data
get_info_data(entry_obj) ==
    LET fields == entry_obj.fields
        folder == DictGet(fields, "folder", "")
        in_firefox == IF Contains(folder, "firefox") THEN "firefox-" ELSE ""
        slug == DictGet(fields, "slug", "home")
        campaign == in_firefox \o slug
        page_type == entry_obj.sys.content_type.id
    IN IF page_type = pageHome /\ "name" \notin DOMAIN fields THEN Raise("KeyError")
       ELSE
       LET lang == IF page_type = pageHome THEN fields.name ELSE entry_obj.sys.locale
           data == [title |-> DictGet(fields, "preview_title", ""),
                    blurb |-> DictGet(fields, "preview_blurb", ""),
                    slug |-> slug,
                    lang |-> lang,
                    theme |-> IF Contains(folder, "firefox") THEN "firefox" ELSE "mozilla",
                    utm_source |-> "www.mozilla.org-" \o campaign,
                    utm_campaign |-> campaign]
       IN IF "preview_image" \notin DOMAIN fields THEN Ok(data)
          ELSE IF "file" \notin DOMAIN fields.preview_image.fields
          THEN Raise("AttributeError")
          ELSE IF "url" \notin DOMAIN fields.preview_image.fields.file
          THEN Raise("TypeError")
          ELSE Ok(data @@ ("image" :> "https:" \o fields.preview_image.fields.file.url))

\* the registry test of proc(): `if ctype_info`
IsRegistered(content_type) == content_type \in DOMAIN CONTENT_TYPE_MAP

\* entries.insert(0, view_model)
MutPrependEntry(entries, view_model) == <<view_model>> \o entries

\* entries.append(view_model)
AppendEntry(entries, view_model) == Append(entries, view_model)

\* what get_content has collected so far: entries, page_css, page_js, and
\* the exception a handler raised, if one did
NothingYet == [entries |-> <<>>, page_css |-> {}, page_js |-> {}, status |-> "ok"]

\* proc(item), lines 517-530: the view-model the processor returned is
\* appended, the css and js of the content type added
Processed(acc, ctype_info, view_model) ==
    IF view_model.status # "ok" THEN [acc EXCEPT !.status = view_model.status]
    ELSE [acc EXCEPT !.entries = AppendEntry(@, view_model.out),
                     !.page_css = @ \cup ctype_info.css,
                     !.page_js = @ \cup ctype_info.js]

\* proc(item) of get_content, on what is collected so far
proc(acc, item, info) ==
    LET content_type == item.sys.content_type.id
    IN IF ~IsRegistered(content_type) THEN acc
       ELSE Processed(acc, CONTENT_TYPE_MAP[content_type],
                      Processor(CONTENT_TYPE_MAP[content_type].proc, item, info))

\* entries.append(self.get_text_data(value))
TextAdded(acc, text) ==
    IF text.status # "ok" THEN [acc EXCEPT !.status = text.status]
    ELSE [acc EXCEPT !.entries = AppendEntry(@, text.out)]

\* `for key, value in fields.items()` of a pageGeneral, from key i on;
\* entry_obj.keys is the order of the fields
RECURSIVE GeneralFrom(_, _, _, _)
GeneralFrom(acc, entry_obj, i, info) ==
    IF i > Len(entry_obj.keys) \/ acc.status # "ok" THEN acc
    ELSE LET key == entry_obj.keys[i]
             value == entry_obj.fields[key]
         IN GeneralFrom(IF key \in {"component_hero", "component_callout"}
                        THEN proc(acc, value, info)
                        ELSE IF key = "body" THEN TextAdded(acc, get_text_data(value, info))
                        ELSE acc,
                        entry_obj, i + 1, info)

\* `for item in content: proc(item)`, from item i on
RECURSIVE ContentFrom(_, _, _, _)
ContentFrom(acc, content, i, info) ==
    IF i > Len(content) \/ acc.status # "ok" THEN acc
    ELSE ContentFrom(proc(acc, content[i], info), content, i + 1, info)

\* the entry a connector leads to, through a second connector if there is one
MutFollowConnectors(the_page) ==
    LET target == the_page.fields.entry
    IN IF target.sys.content_type.id = connectHomepage /\ "entry" \in DOMAIN target.fields
       THEN target.fields.entry ELSE target

\* self.page.fields()['entry']
ConnectorTarget(the_page) == the_page.fields.entry

\* get_content, lines 496-502: the entry whose content is assembled
ContentRoot(the_page) ==
    LET entry_type == the_page.sys.content_type.id
    IN IF StartsWith(entry_type, "page") THEN Ok(the_page)
       ELSE IF entry_type = connectHomepage
       THEN IF "entry" \in DOMAIN the_page.fields THEN Ok(ConnectorTarget(the_page))
            ELSE Raise("KeyError")
       ELSE Raise("ValueError")

\* get_content, lines 551-557: the result, unless a handler raised
Result(page_type, info, acc) ==
    IF acc.status # "ok" THEN [status |-> acc.status, page_info |-> info]
    ELSE [status |-> "ok",
          page_info |-> info,
          out |-> [page_type |-> page_type,
                   page_css |-> acc.page_css,
                   page_js |-> acc.page_js,
                   info |-> info,
                   entries |-> acc.entries]]

\* the info published only after the entries loop: the handlers read what
\* the request held before
MutPublishAfterDispatch(request_info, info) == request_info

\* self.request.page_info = self.get_info_data(entry_obj), line 504:
\* request.page_info from there on, as the renderers of the entries loop read it
PublishedInfo(request_info, info) == info

\* get_content, lines 505-557, for the content root; info is what
\* get_info_data returned for it, current_info is request.page_info while
\* the content is dispatched
Assemble(entry_obj, current_info, info) ==
    LET page_type == entry_obj.sys.content_type.id
        fields == entry_obj.fields
        content == IF page_type \in {pageVersatile, pageHome} /\ "content" \in DOMAIN fields
                   THEN fields.content ELSE <<>>
    IN Result(page_type, info,
              ContentFrom(IF page_type = pageGeneral
                          THEN GeneralFrom(NothingYet, entry_obj, 1, current_info)
                          ELSE NothingYet,
                          content, 1, current_info))

\* ContentfulPage.get_content: what it returns or raises, and
\* request.page_info as it leaves it
get_content(the_page, request_info) ==
    LET root == ContentRoot(the_page)
        info == get_info_data(root.out)
    IN IF root.status # "ok" THEN [status |-> root.status, page_info |-> request_info]
       ELSE IF info.status # "ok" THEN [status |-> info.status, page_info |-> request_info]
       ELSE Assemble(root.out, PublishedInfo(request_info, info.out), info.out)

(* ------------------------- pages: the entries served -------------------- *)
\* items of a page's content
MaxItems == 3
\* cards of a card layout's content
MaxCards == 3

\* the sequences over S of at most n members
SeqsWithin(S, n) == {<<>>} \cup SeqsUpTo(S, n)

\* an entry as the client resolves it (include=10: linked entries in place)
Entry(content_type, locale, fields) ==
    [sys |-> [content_type |-> [id |-> content_type], locale |-> locale],
     fields |-> fields]

Asset(url) == [file |-> [url |-> url], title |-> "image"]

ImageA == Asset("//images.ctfassets.net/a.png")
ImageB == Asset("//images.ctfassets.net/b.png")

DocA == BlockNode("document", <<ParaA>>)
DocLink == BlockNode("document", <<BlockNode("paragraph", <<OtherLink>>)>>)

CtaEntry ==
    Entry("componentCtaButton", "en-US",
          [action |-> "Download Firefox", label |-> "Get", theme |-> "Secondary",
           size |-> "Large"])

HeroFull ==
    Entry("componentHero", "en-US",
          [image |-> ImageA, heading |-> "h", tagline |-> "t", body |-> DocLink,
           theme |-> "Dark", product_icon |-> "Firefox", image_side |-> "Left",
           cta |-> CtaEntry])
HeroNoImage == Entry("componentHero", "en-US", [heading |-> "h"])

SectionHeading(heading) == Entry("componentSectionHeading", "en-US", [heading |-> heading])

SplitBlock ==
    Entry("componentSplitBlock", "en-US",
          [image |-> ImageA, body |-> DocA, image_side |-> "Left", body_width |-> "Narrow",
           mobile_display |-> {"Hide image"}])

Callout ==
    Entry("componentCallout", "en-US",
          [heading |-> "c", body |-> DocA, cta |-> CtaEntry, product_icon |-> "None"])
CalloutNoCta == Entry("componentCallout", "en-US", [heading |-> "c"])

PictoBlocks ==
    Entry("layoutPictoBlocks", "en-US",
          [blocks_per_row |-> 2, icon_size |-> "Tiny", heading_level |-> "h2",
           content |-> <<Entry("componentPicto", "en-US", [heading |-> "p", icon |-> ImageB])>>])

TextTwoColumns ==
    Entry("textTwoColumns", "en-US", [body_column_one |-> DocA, width |-> "Large"])

\* an entry whose type has no handler
LogoEntry == Entry("componentLogo", "en-US", [product_icon |-> "Firefox"])

\* the cards of a layout, with and without an image
CardWithImage == Entry("componentCard", "en-US", [heading |-> "i", image |-> ImageA])
CardNoImage == Entry("componentCard", "en-US", [heading |-> "n", body |-> DocA])
CardWithVideo ==
    Entry("componentCard", "en-US",
          [heading |-> "v", you_tube |-> [queries |-> ("v" :> <<"dQw4w9WgXcQ">>)]])
Cards == {CardWithImage, CardNoImage}

\* the large card of a layout5Cards: its own image, and the card it shows
LargeCards ==
    {Entry("componentCardLarge", "en-US", f) :
        f \in {[image |-> ImageB, card |-> CardWithImage],
               [image |-> ImageB, card |-> CardNoImage],
               [card |-> CardWithImage],
               [card |-> CardNoImage],
               [image |-> ImageB]}}

\* the aspect ratios an editor can declare, one the tables do not know, and
\* none declared
DeclaredAspects == {"1:1", "3:2", "16:9", "4:3", None}

CardLayoutFields(aspect_ratio, content) ==
    IF aspect_ratio = None THEN [content |-> content]
    ELSE [aspect_ratio |-> aspect_ratio, content |-> content]

CardLayouts ==
    {Entry("layout5Cards", "en-US", CardLayoutFields(a, c) @@ ("large_card" :> l)) :
        a \in DeclaredAspects, c \in SeqsWithin(Cards, MaxCards), l \in LargeCards}
    \cup {Entry("layout3Cards", "en-US", CardLayoutFields(a, c)) :
            a \in DeclaredAspects, c \in SeqsWithin(Cards, MaxCards)}
    \cup {Entry("layout5Cards", "en-US", [content |-> <<CardWithImage>>]),
          Entry("layout2Cards", "en-US",
                [aspect_ratio |-> "3:2", content |-> <<CardWithVideo, CardNoImage>>]),
          Entry("layout4Cards", "en-US", [aspect_ratio |-> "3:2"])}

Items == {HeroFull, HeroNoImage, SectionHeading("s1"), SectionHeading("s2"), SplitBlock,
          Callout, CalloutNoCta, PictoBlocks, TextTwoColumns, LogoEntry}

Contents == SeqsWithin(Items, MaxItems) \cup {<<l>> : l \in CardLayouts}

\* pages with a content sequence
ContentPages ==
    {Entry(pageVersatile, "en-US", [slug |-> "sync", folder |-> "firefox", content |-> c]) :
        c \in Contents}
    \cup {Entry(pageHome, "en-US", [name |-> "de", content |-> c]) : c \in Contents}
    \cup {Entry(pageVersatile, "en-US", [slug |-> "bare"]),
          Entry(pageHome, "en-US", [content |-> <<SectionHeading("s1")>>])}

\* a pageGeneral, its fields in the order the CMS sends them
GeneralPage(keys) ==
    [sys |-> [content_type |-> [id |-> pageGeneral], locale |-> "de"],
     fields |-> [slug |-> "about", body |-> DocA, component_hero |-> HeroFull,
                 component_callout |-> Callout,
                 preview_image |-> [fields |-> [file |-> [url |-> "//images.ctfassets.net/p.png"]]]],
     keys |-> keys]

GeneralPages ==
    {GeneralPage(<<"slug", "component_hero", "body", "component_callout", "preview_image">>),
     GeneralPage(<<"body", "slug", "component_callout", "component_hero", "preview_image">>)}

\* what a connector can point at: pages, another connector, a component
Targets ==
    {Entry(pageHome, "en-US", [name |-> "fr", slug |-> "target",
                               content |-> <<SectionHeading("s1"), LogoEntry, HeroFull>>]),
     Entry(pageVersatile, "fr", [slug |-> "target", content |-> <<Callout>>]),
     Entry(connectHomepage, "fr",
           [slug |-> "target",
            entry |-> Entry(pageHome, "en-US", [name |-> "es", slug |-> "inner",
                                                content |-> <<SectionHeading("s2")>>])]),
     HeroFull}

Connectors ==
    {Entry(connectHomepage, "en-US", [name |-> "en-US", slug |-> "connector", entry |-> t]) :
        t \in Targets}
    \cup {Entry(connectHomepage, "en-US", [name |-> "en-US"])}

\* root entries whose type is neither a page's nor the connector's, and one
\* whose type only starts like a page's
OtherRoots ==
    {Entry(t, "en-US", [slug |-> "other", content |-> <<SectionHeading("s1")>>]) :
        t \in {"componentHero", "connectOther", "Page", "homepage", "pageLanding"}}

RootPages == ContentPages \cup GeneralPages \cup Connectors \cup OtherRoots

(* ------------------------------ pages: requests ------------------------- *)
\* a view builds ContentfulPage(request, page_id) and calls get_content()
GetContent ==
    /\ ctx.status = "pending"
    /\ LET returned == get_content(self_page, page_info)
       IN /\ ctx' = IF returned.status = "ok" THEN Ok(returned.out)
                    ELSE [status |-> returned.status]
          /\ page_info' = returned.page_info
    /\ UNCHANGED <<syncVars, node, html, self_page, styleVars, handlerVars>>

InitPage ==
    /\ SyncIdle
    /\ RichIdle
    /\ self_page \in RootPages
    /\ ctx = NoCtx
    /\ StyleIdle
    /\ HandlerIdle

NextPage == GetContent

SpecPage == InitPage /\ [][NextPage]_vars

(* ---------------------------- pages: properties ------------------------- *)
Returned == ctx.status = "ok"

TagOf(entry) == entry.sys.content_type.id

\* the content sequence of an entry, empty when it has none
ContentOf(entry) == IF "content" \in DOMAIN entry.fields THEN entry.fields.content ELSE <<>>

\* get_content() returned a result assembled from this entry
AssembledFrom(entry) ==
    /\ Returned
    /\ ctx.out.page_type = TagOf(entry)
    /\ ctx.out.info.slug = DictGet(entry.fields, "slug", "home")
    /\ ctx.out.info.lang = IF TagOf(entry) = pageHome THEN entry.fields.name
                           ELSE entry.sys.locale

\* C6: get_content() takes the root entry itself as the content root when its
\* tag starts with "page", and the entry its 'entry' field refers to (one
\* level, even if that entry is a connector too) when its tag is
\* connectHomepage; for any other tag it raises ValueError and returns no
\* result.
C6_ContentRootSelection ==
    ctx.status # "pending" =>
        LET tag == TagOf(self_page)
        IN /\ (StartsWith(tag, "page") /\ Returned) => AssembledFrom(self_page)
           /\ (tag = connectHomepage /\ Returned) =>
                 /\ AssembledFrom(self_page.fields.entry)
                 /\ StartsWith(TagOf(self_page.fields.entry), "page") =>
                        ctx.out = get_content(self_page.fields.entry, NoInfo).out
           /\ (StartsWith(tag, "page") \/ tag = connectHomepage) => ctx.status # "ValueError"
           /\ (~StartsWith(tag, "page") /\ tag # connectHomepage) =>
                 ctx.status = "ValueError" /\ "out" \notin DOMAIN ctx

\* a connector whose target is itself a connector was served: the target is
\* the content root
C6_Witness ==
    /\ Returned
    /\ TagOf(self_page) = connectHomepage
    /\ TagOf(self_page.fields.entry) = connectHomepage
    /\ ctx.out.info.slug = "target"

\* the component name each registered content type is mapped to
ComponentOf ==
    ("componentHero" :> "hero") @@ ("componentSectionHeading" :> "sectionHeading")
    @@ ("componentSplitBlock" :> "split") @@ ("componentCallout" :> "callout")
    @@ ("layout2Cards" :> "cardLayout") @@ ("layout3Cards" :> "cardLayout")
    @@ ("layout4Cards" :> "cardLayout") @@ ("layout5Cards" :> "cardLayout")
    @@ ("layoutPictoBlocks" :> "pictoLayout") @@ ("textOneColumn" :> "textColumns")
    @@ ("textTwoColumns" :> "textColumns") @@ ("textThreeColumns" :> "textColumns")
    @@ ("textFourColumns" :> "textColumns")

HasHandler(item) == TagOf(item) \in DOMAIN ComponentOf

\* the view-model is the one made from this item
MadeFrom(view_model, item) ==
    /\ view_model.component = ComponentOf[TagOf(item)]
    /\ view_model.component = "sectionHeading" => view_model.heading = item.fields.heading
    /\ view_model.component \in {"hero", "callout"} => view_model.title = item.fields.heading

IsContentPage == TagOf(self_page) \in {pageVersatile, pageHome}

\* C7: for a versatile or home page that get_content() returns for, entries
\* holds one view-model per item of 'content' with a registered tag, in the
\* order of 'content'; items with other tags add nothing, and the result is
\* the one the page gives without them.
C7_EntriesFollowContent ==
    (IsContentPage /\ Returned) =>
        LET registered == SelectSeq(ContentOf(self_page), HasHandler)
            entries == ctx.out.entries
        IN /\ Len(entries) = Len(registered)
           /\ \A k \in 1..Len(entries) : MadeFrom(entries[k], registered[k])
           /\ "content" \in DOMAIN self_page.fields =>
                  get_content([self_page EXCEPT !.fields.content = registered],
                              NoInfo).out = ctx.out

\* a page was served whose content holds two registered items of different
\* headings with an unregistered item between them
C7_Witness ==
    /\ IsContentPage
    /\ Returned
    /\ ContentOf(self_page) = <<SectionHeading("s1"), LogoEntry, SectionHeading("s2")>>
    /\ Len(ctx.out.entries) = 2

HasImage(entry) == "image" \in DOMAIN entry.fields

\* the class and the image request of a card framed in this aspect ratio
FramingClass ==
    ("1:1" :> "mzp-has-aspect-1-1") @@ ("3:2" :> "mzp-has-aspect-3-2")
    @@ ("16:9" :> "mzp-has-aspect-16-9")
FramingQuery ==
    ("1:1" :> "?w=800&h=800&fit=fill&f=faces") @@ ("3:2" :> "?w=800&h=533&fit=fill&f=faces")
    @@ ("16:9" :> "?w=800&h=450&fit=fill&f=faces")

\* the card view-model shows the card's own image framed in this aspect ratio
Framed(card_data, card, aspect) ==
    /\ card_data.aspect_ratio = FramingClass[aspect]
    /\ card_data.image_url = "https:" \o card.fields.image.file.url \o FramingQuery[aspect]
    /\ card_data.highres_image_url = card_data.image_url

\* the card view-model shows the large card's image, 1860 wide and 16:9
LargeFramed(card_data, large_card) ==
    /\ card_data.image_url =
           "https:" \o large_card.fields.image.file.url \o "?w=1860&h=1046&fit=fill&f=faces"
    /\ card_data.highres_image_url = card_data.image_url

\* a page whose content is one layout5Cards was assembled
ServedFiveCards ==
    /\ IsContentPage
    /\ Returned
    /\ Len(ContentOf(self_page)) = 1
    /\ TagOf(ContentOf(self_page)[1]) = "layout5Cards"

Unframed(card_data) ==
    card_data.aspect_ratio = "" /\ card_data.image_url = "" /\ card_data.highres_image_url = ""

CampaignOf(entry) ==
    (IF Contains(DictGet(entry.fields, "folder", ""), "firefox") THEN "firefox-" ELSE "")
    \o DictGet(entry.fields, "slug", "home")

\* the entry get_content() assembles for the root entry of the request
RootOf(the_page) ==
    IF TagOf(the_page) = connectHomepage THEN the_page.fields.entry ELSE the_page

\* the request got as far as the entries loop: the root is a page or a
\* connector to an entry, and get_info_data returned for it
Dispatched ==
    /\ ctx.status # "pending"
    /\ ContentRoot(self_page).status = "ok"
    /\ get_info_data(RootOf(self_page)).status = "ok"

\* the hyperlink of DocLink as rendered for a page with this campaign id
LinkTaggedFor(campaign) ==
    "<a href=\"https://support.mozilla.org/kb?utm_source=www.mozilla.org&utm_medium=referral"
    \o "&utm_campaign=" \o QuotePlus(campaign) \o "\""

\* the entries of the result whose body was rendered from DocLink
LinkBodies == {i \in 1..Len(ctx.out.entries) : ctx.out.entries[i].component = "hero"}

\* C15: in every run of get_content() the page info, campaign id included, is
\* made from the content root and published as request.page_info before a
\* content item is dispatched, so that every hyperlink rendered in the run
\* carries the campaign id of the page being assembled; the info returned is
\* that same value.
C15_InfoPublishedBeforeDispatch ==
    Dispatched =>
        /\ page_info = get_info_data(RootOf(self_page)).out
        /\ page_info.utm_campaign = CampaignOf(RootOf(self_page))
        /\ Returned =>
              /\ ctx.out.info = page_info
              /\ \A i \in LinkBodies :
                    Contains(ctx.out.entries[i].body,
                             LinkTaggedFor(CampaignOf(RootOf(self_page))))

C15_Witness ==
    /\ Returned
    /\ TagOf(self_page) = pageVersatile
    /\ page_info.utm_campaign = "firefox-sync"
    /\ Len(ctx.out.entries) = 2
    /\ ctx.out.entries[1].component = "sectionHeading"
    /\ ctx.out.entries[2].component = "hero"
    /\ Contains(ctx.out.entries[2].body, "utm_campaign=firefox-sync")

(* ------------------------- rich text: properties ------------------------ *)
Rendered(nodeType) == html.status # "pending" /\ node.nodeType = nodeType

IsEmptyText(n) == n.nodeType = "text" /\ n.value = ""

\* the children that are not empty text leaves
NonEmptyKids(content) == {i \in 1..Len(content) : ~IsEmptyText(content[i])}

\* C9: a paragraph whose sole content is an empty text leaf renders as the
\* empty string; one whose only non-empty child is a hyperlink is wrapped in
\* <p class="mzp-c-cta-link">; every other paragraph (one holding a single
\* non-empty text leaf among them) is wrapped in a plain <p>.
C9_ParagraphRendering ==
    (Rendered("paragraph") /\ _render_content(node, page_info).status = "ok") =>
        LET content == node.content
            inner == _render_content(node, page_info).out
            kids == NonEmptyKids(content)
        IN /\ html.status = "ok"
           /\ html.out =
                IF Len(content) = 1 /\ IsEmptyText(content[1]) THEN ""
                ELSE IF Cardinality(kids) = 1
                        /\ \A i \in kids : content[i].nodeType = "hyperlink"
                     THEN "<p class=\"mzp-c-cta-link\">" \o inner \o "</p>"
                ELSE "<p>" \o inner \o "</p>"

\* a child of a list item that holds text: a paragraph (what the CMS puts in
\* a list item) or a text leaf
IsTextChild(n) == n.nodeType \in {"paragraph", "text"}

\* C10: a list item with exactly one text child renders that child's content
\* directly inside <li>, with no <p>; a list item with a text child plus
\* other children renders all of its children inside <li>.
C10_ListItemRendering ==
    (Rendered("list-item") /\ _render_content(node, page_info).status = "ok") =>
        LET content == node.content
            all == _render_content(node, page_info).out
        IN /\ (Len(content) = 1 /\ content[1].nodeType = "paragraph") =>
                 html = Cat(Ok("<li>"), Cat(_render_content(content[1], page_info),
                                            Ok("</li>")))
           /\ (Len(content) > 1 /\ \E i \in 1..Len(content) : IsTextChild(content[i])) =>
                 html = Ok("<li>" \o all \o "</li>")

(* ------------------------- hyperlinks: properties ----------------------- *)
\* the first place from i on where the character ch stands in str, 0 if none
IndexFrom(str, ch, i) ==
    LET places == {k \in i..Len(str) : SubSeq(str, k, k) = ch}
    IN IF places = {} THEN 0 ELSE CHOOSE k \in places : \A j \in places : k <= j

\* the opening tag of a rendered hyperlink
OpeningTag(a) == SubSeq(a, 1, IndexFrom(a, ">", 1))

\* the value of the href attribute of a rendered hyperlink
HrefOf(a) == SubSeq(a, 10, IndexFrom(a, "\"", 10) - 1)

\* the query string of a URL: what stands between the first ? and the fragment
QueryOf(href) ==
    LET hash == IndexFrom(href, "#", 1)
        base == IF hash = 0 THEN href ELSE SubSeq(href, 1, hash - 1)
        mark == IndexFrom(base, "?", 1)
    IN IF mark = 0 THEN "" ELSE SubSeq(base, mark + 1, Len(base))

\* the parameters of a query string, in order
RECURSIVE ParamsOf(_)
ParamsOf(query) ==
    IF query = "" THEN <<>>
    ELSE LET amp == IndexFrom(query, "&", 1)
         IN IF amp = 0 THEN <<query>>
            ELSE <<SubSeq(query, 1, amp - 1)>>
                 \o ParamsOf(SubSeq(query, amp + 1, Len(query)))

\* a host of the mozilla.org domain
IsMozillaHost(netloc) ==
    \/ netloc = "mozilla.org"
    \/ /\ Len(netloc) > Len(".mozilla.org")
       /\ SubSeq(netloc, Len(netloc) - Len(".mozilla.org") + 1, Len(netloc)) = ".mozilla.org"

\* the same-site alternate host: a mozilla.org host other than www.mozilla.org
IsAlternateHost(netloc) == IsMozillaHost(netloc) /\ netloc # "www.mozilla.org"

\* the query has a parameter whose name starts with utm_
HasUtmParam(query) ==
    \E i \in 1..Len(ParamsOf(query)) : StartsWith(ParamsOf(query)[i], "utm_")

\* the parameters a rendered href has after those of the link it was made from
AddedParams(href, url) ==
    LET rendered == ParamsOf(QueryOf(href))
        given == ParamsOf(url.query)
    IN IF Len(rendered) >= Len(given) /\ SubSeq(rendered, 1, Len(given)) = given
       THEN SubSeq(rendered, Len(given) + 1, Len(rendered))
       ELSE <<"the parameters of the link are not kept">>

\* C11: for a link to a mozilla.org host other than www.mozilla.org whose
\* query has no utm_ parameter, the query string of the rendered href has
\* exactly utm_source, utm_medium=referral and utm_campaign=<the page's campaign
\* id> as added parameters; for a link whose query already has a utm_
\* parameter, and for a link to any other host, no parameter is added.
C11_UtmInjection ==
    (Rendered("hyperlink") /\ html.status = "ok") =>
        LET url == node.data.uri
            added == AddedParams(HrefOf(html.out), url)
        IN IF IsAlternateHost(url.netloc) /\ ~HasUtmParam(url.query)
           THEN /\ Len(added) = 3
                /\ StartsWith(added[1], "utm_source=")
                /\ added[2] = "utm_medium=referral"
                /\ added[3] = "utm_campaign=" \o QuotePlus(page_info.utm_campaign)
           ELSE added = <<>>

\* the text of all the text leaves below a node, in document order
RECURSIVE TextLeaves(_)
RECURSIVE TextLeavesFrom(_, _)
TextLeaves(n) ==
    IF n.nodeType = "text" THEN n.value
    ELSE IF "content" \in DOMAIN n THEN TextLeavesFrom(n.content, 1)
    ELSE ""

TextLeavesFrom(content, i) ==
    IF i > Len(content) THEN ""
    ELSE TextLeaves(content[i]) \o TextLeavesFrom(content, i + 1)

\* the target of a link is outside the primary site: it names a host, and
\* the host is not www.mozilla.org
IsExternal(url) == url.netloc # "" /\ url.netloc # "www.mozilla.org"

\* C12: a rendered hyperlink carries rel="external noopener" and the
\* analytics data attribute if and only if its target is external to the
\* primary site, and the value of the data attribute is the text of all the
\* text leaves below the hyperlink, in document order.
C12_ExternalLinkAttributes ==
    (Rendered("hyperlink") /\ html.status = "ok") =>
        LET tag == OpeningTag(html.out)
            external == IsExternal(node.data.uri)
        IN /\ Contains(tag, " rel=\"external noopener\"") <=> external
           /\ Contains(tag, " data-cta-text=\"") <=> external
           /\ external => Contains(tag, " data-cta-text=\"" \o TextLeaves(node) \o "\"")


(* --------------------------- style tables: calls ------------------------ *)
\* the style-table resolvers
Resolvers == {"_get_product_class", "_get_layout_class", "_get_aspect_ratio_class",
              "_get_width_class", "_get_theme_class", "_get_column_class"}

\* the table a resolver looks its key up in
StyleTable(name) ==
    CASE name = "_get_product_class" -> PRODUCT_THEMES
      [] name = "_get_layout_class" -> LAYOUT_CLASS
      [] name = "_get_aspect_ratio_class" -> ASPECT_RATIOS
      [] name = "_get_width_class" -> WIDTHS
      [] name = "_get_theme_class" -> THEME_CLASS
      [] name = "_get_column_class" -> COLUMN_CLASS

\* the call of a resolver by its name
CallResolver(name, key) ==
    CASE name = "_get_product_class" -> _get_product_class(key)
      [] name = "_get_layout_class" -> _get_layout_class(key)
      [] name = "_get_aspect_ratio_class" -> _get_aspect_ratio_class(key)
      [] name = "_get_width_class" -> _get_width_class(key)
      [] name = "_get_theme_class" -> _get_theme_class(key)
      [] name = "_get_column_class" -> _get_column_class(key)

\* values an author may pick that no table has, the empty string, and a
\* field that is not set
UnknownKeys == {"Thunderbird", "layout6Cards", "4:3", "Huge", "Neon", "5", "", None}

\* the keys handed to the resolvers: those of the tables and the unknown ones
StyleKeys == UNION {DOMAIN StyleTable(name) : name \in Resolvers} \cup UnknownKeys

\* a handler resolves one key; dict.get raises for no string key and not for None
Resolve ==
    /\ resolver # NoResolver
    /\ css_class.status = "pending"
    /\ css_class' = Ok(CallResolver(resolver.name, resolver.key))
    /\ UNCHANGED <<syncVars, richVars, pageVars, resolver, handlerVars>>

InitStyle ==
    /\ SyncIdle
    /\ RichIdle
    /\ PageIdle
    /\ HandlerIdle
    /\ resolver \in [name : Resolvers, key : StyleKeys]
    /\ css_class = NoHtml

NextStyle == Resolve

SpecStyle == InitStyle /\ [][NextStyle]_vars

\* C13: every style-table resolver (theme, width, aspect ratio, column count,
\* layout, product), given a key that is not in its table, returns the empty
\* string and does not raise.
C13_UnknownKeyResolvesToEmpty ==
    (css_class.status # "pending" /\ resolver.key \notin DOMAIN StyleTable(resolver.name)) =>
        css_class = Ok("")


(* -------------------- content handlers: entries mapped ------------------ *)
\* the fields an editor may leave unset
OptionalFields == {"image", "cta", "body", "content", "theme", "size"}

\* the entry without the fields of `unset`
Without(entry_obj, unset) ==
    [entry_obj EXCEPT !.fields = [key \in (DOMAIN @) \ unset |-> @[key]]]

\* an entry for every registered handler, with its optional fields set
CompleteEntries ==
    {HeroFull,
     [HeroFull EXCEPT !.fields.cta = Without(CtaEntry, {"theme", "size"})],
     SectionHeading("s1"),
     [SplitBlock EXCEPT !.fields = @ @@ [theme |-> "Dark"]],
     [Callout EXCEPT !.fields = @ @@ [theme |-> "Light (alternative)"]],
     Entry("layout3Cards", "en-US",
           [aspect_ratio |-> "3:2", content |-> <<CardWithImage, CardNoImage>>]),
     Entry("layout5Cards", "en-US",
           [aspect_ratio |-> "1:1", content |-> <<CardNoImage>>,
            large_card |-> Entry("componentCardLarge", "en-US",
                                 [image |-> ImageB, card |-> CardWithImage])]),
     [PictoBlocks EXCEPT !.fields = @ @@ [theme |-> "Dark"]],
     [TextTwoColumns EXCEPT !.fields = @ @@ [theme |-> "Dark", body_column_two |-> DocLink]]}

\* the entries handed to the handlers: every optional field set or not
PartialEntries == {Without(e, unset) : e \in CompleteEntries, unset \in SUBSET OptionalFields}

\* proc() hands an entry to the handler registered for its content type
MapEntry ==
    /\ the_item # NoPage
    /\ the_data.status = "pending"
    /\ the_data' = Processor(CONTENT_TYPE_MAP[the_item.sys.content_type.id].proc,
                             the_item, page_info)
    /\ UNCHANGED <<syncVars, richVars, pageVars, styleVars, the_item>>

InitHandler ==
    /\ SyncIdle
    /\ page_info \in PageInfos
    /\ node = [nodeType |-> "text", value |-> ""]
    /\ html = NoHtml
    /\ PageIdle
    /\ StyleIdle
    /\ the_item \in PartialEntries
    /\ the_data = NoCtx

NextHandler == MapEntry

SpecHandler == InitHandler /\ [][NextHandler]_vars

(* ----------------------- content handlers: properties ------------------- *)
\* the optional fields the entry does not have
UnsetFields(entry_obj) == OptionalFields \ DOMAIN entry_obj.fields

\* the keys of a view-model made from an optional field
KeysFrom(field) ==
    CASE field = "image" -> {"image", "image_url", "highres_image_url"}
      [] field = "cta" -> {"cta", "include_cta"}
      [] field = "body" -> {"body"}
      [] field = "content" -> {"cards", "pictos"}
      [] field = "theme" -> {"theme_class"}
      [] field = "size" -> {}

\* the key holds an empty string, false or nothing
IsDegraded(out, key) ==
    \/ key \notin DOMAIN out
    \/ CASE key = "include_cta" -> out[key] = FALSE
          [] key \in {"cards", "pictos"} -> out[key] = <<>>
          [] OTHER -> out[key] = ""

\* C14: a registered handler given an entry in which any of the optional
\* fields (image, cta, body, content, theme, size) is absent returns a
\* view-model in which what is made from the field is an empty string, false
\* or left out; it does not raise, and an absent image gives empty URLs.
C14_AbsentFieldsDegrade ==
    the_data.status # "pending" =>
        /\ the_data.status = "ok"
        /\ \A field \in UnsetFields(the_item) : \A key \in KeysFrom(field) :
              IsDegraded(the_data.out, key)


====
